---- MODULE Spec2Model ----
(***************************************************************************)
(* Model of export_package_apps.py: the winget name-resolution cache, the  *)
(* four source exporters and the sequencing done by main.                  *)
(*                                                                         *)
(* Text is a tuple of one-character strings, so that split, strip,         *)
(* startswith and "in" are computed as Python computes them.               *)
(* External commands and file writes are the environment: every call       *)
(* picks one of its possible outcomes.  A read of the cache file is        *)
(* decided by the file's content.                                          *)
(***************************************************************************)
EXTENDS Integers, Sequences, FiniteSets, TLC

VARIABLES
    pc,                 \* position in main / in the running exporter
    mgr,                \* manager whose block of main is running
    avail,              \* winget_available, scoop_available, choco_available
    json_data,          \* parsed export of the running winget exporter
    packages,           \* its packages list
    packages_to_fetch,  \* identifiers found absent from the cache up front
    fetch_index,        \* progress lines printed so far
    idx,                \* position of the second loop in packages
    apps,               \* record list of the running / last exporter
    status,             \* how the running / last exporter went
    scratch,            \* scratch file allocated by the running / last exporter
    cacheFile,          \* content of cache/winget_cache.json
    outFiles,           \* the four csv files of the output directory
    found_files,        \* files listed by the final report
    showLog,            \* identifiers given to "winget show" in this pass
    lastStore,          \* last call of save_winget_info_to_cache in this pass
    firstWritten,       \* name of the first entry this process wrote, per identifier
    csvLog,             \* managers whose list main wrote to its file in full
    writeFailed,        \* some write of the cache file has failed
    pass,               \* 1 or 2: which pass over the same export
    prev,               \* what the first pass returned
    trace,              \* the probes, exporter calls and output steps of main, in order
    storeLog,           \* identifiers given to save_winget_info_to_cache in this pass
    resolveLog,         \* identifiers given to get_app_display_name in this pass
    lastResolve         \* last call of get_app_display_name in this pass

vars == <<pc, mgr, avail, json_data, packages, packages_to_fetch, fetch_index,
          idx, apps, status, scratch, cacheFile, outFiles, found_files,
          showLog, lastStore, firstWritten, csvLog, writeFailed, pass, prev,
          trace, storeLog, resolveLog, lastResolve>>

----------------------------------------------------------------------------
(* Bounds *)

MaxPkgs == 2    \* entries in the Packages list of an export of the winget source
MaxStorePkgs == 1   \* entries in the Packages list of an export of the msstore source
MaxApps == 2    \* entries in a scoop or chocolatey export

----------------------------------------------------------------------------
(* Text *)

RECURSIVE SeqsUpTo(_, _)
SeqsUpTo(S, n) ==
    IF n = 0 THEN {<<>>}
    ELSE LET shorter == SeqsUpTo(S, n - 1)
         IN  shorter \cup {Append(s, x) : s \in {t \in shorter : Len(t) = n - 1}, x \in S}

StartsWith(s, p) ==
    /\ Len(p) <= Len(s)
    /\ SubSeq(s, 1, Len(p)) = p

\* positions at which pat occurs in s
Occurrences(s, pat) ==
    {i \in 1..(Len(s) - Len(pat) + 1) : SubSeq(s, i, i + Len(pat) - 1) = pat}

\* Python: pat in s
Contains(s, pat) == Occurrences(s, pat) # {}

Min(S) == CHOOSE x \in S : \A y \in S : x <= y
Max(S) == CHOOSE x \in S : \A y \in S : x >= y

\* Python: s.split(pat)[0]
SplitFirst(s, pat) ==
    IF Contains(s, pat) THEN SubSeq(s, 1, Min(Occurrences(s, pat)) - 1) ELSE s

\* Python: s.split(pat)[-1]
SplitLast(s, pat) ==
    IF Contains(s, pat)
    THEN SubSeq(s, Max(Occurrences(s, pat)) + Len(pat), Len(s))
    ELSE s

Whitespace == {" ", "\t", "\r", "\n"}

RECURSIVE LStrip(_)
LStrip(s) ==
    IF s # <<>> /\ Head(s) \in Whitespace THEN LStrip(Tail(s)) ELSE s

RECURSIVE RStrip(_)
RStrip(s) ==
    IF s # <<>> /\ s[Len(s)] \in Whitespace
    THEN RStrip(SubSeq(s, 1, Len(s) - 1))
    ELSE s

\* Python: s.strip()
Strip(s) == RStrip(LStrip(s))

\* Python: s.split("\n")
RECURSIVE SplitLines(_)
SplitLines(s) ==
    IF Contains(s, <<"\n">>)
    THEN LET i == Min(Occurrences(s, <<"\n">>))
         IN  <<SubSeq(s, 1, i - 1)>> \o SplitLines(SubSeq(s, i + 1, Len(s)))
    ELSE <<s>>

----------------------------------------------------------------------------
(* Identifiers and "winget show" *)

IdFBZ == <<"F", ".", "B", ".", "Z">>
IdS   == <<"s">>
Ids   == {IdFBZ, IdS}

FoundPrefix   == <<"F", "o", "u", "n", "d", " ">>
\* the Japanese prefix of line 128, one element per character (romanised)
FoundPrefixJa == <<"mi", "tsu", "ka", "ri", "ma", "shi", "ta", " ">>

Bracketed(package_id) == <<"[">> \o package_id \o <<"]">>

NameApp == <<"M", "y", " ", "A", "p">>
NameZed == <<"Z", "e", "d">>

\* what run_command(["winget", "show", package_id, ...]) can return:
\* stdout and returncode (stderr is not read by the caller)
ShowResults(package_id) ==
    { [returncode |-> 1, stdout |-> <<>>],
      [returncode |-> 1, stdout |-> FoundPrefix \o NameApp \o <<" ">> \o Bracketed(package_id)],
      [returncode |-> 0, stdout |-> <<>>],
      [returncode |-> 0, stdout |-> <<"N", "o", " ", "p", "k", "g", "\n">>],
      [returncode |-> 0, stdout |-> Bracketed(package_id) \o <<"\n">>],
      [returncode |-> 0, stdout |-> <<"-", "\n">> \o FoundPrefix \o NameApp \o <<" ">>
                                     \o Bracketed(package_id) \o <<"\n", "V", ":", "1">>],
      [returncode |-> 0, stdout |-> FoundPrefixJa \o NameApp \o <<" ">>
                                     \o Bracketed(package_id) \o <<"\r", "\n">>],
      [returncode |-> 0, stdout |-> <<" ", " ">> \o NameApp \o <<" ">>
                                     \o Bracketed(package_id) \o <<"\n">>
                                     \o FoundPrefix \o NameZed \o Bracketed(package_id)] }

\* lines 125-134: the display name carried by one matching line
NameOfLine(line, package_id) ==
    LET before_bracket == Strip(SplitFirst(line, Bracketed(package_id)))
    IN  IF StartsWith(before_bracket, FoundPrefixJa)
        THEN Strip(SubSeq(before_bracket, Len(FoundPrefixJa) + 1, Len(before_bracket)))
        ELSE IF StartsWith(before_bracket, FoundPrefix)
        THEN Strip(SubSeq(before_bracket, Len(FoundPrefix) + 1, Len(before_bracket)))
        ELSE Strip(before_bracket)

\* lines 114-135: display_name after the show lookup, "" when nothing was found
ParseShow(res, package_id) ==
    IF res.returncode = 0 /\ res.stdout # <<>>
    THEN LET lines == SplitLines(res.stdout)
             hits  == {i \in 1..Len(lines) :
                          Contains(Strip(lines[i]), Bracketed(package_id))}
         IN  IF hits = {} THEN <<>>
             ELSE NameOfLine(Strip(lines[Min(hits)]), package_id)
    ELSE <<>>

\* a guess that splits at the first dot
DerivedNameSecondPart(package_id) ==
    IF Contains(package_id, <<".">>)
    THEN SplitFirst(SubSeq(package_id, Min(Occurrences(package_id, <<".">>)) + 1,
                           Len(package_id)), <<".">>)
    ELSE package_id

\* line 142: the name guessed from the identifier
DerivedName(package_id) ==
    IF Contains(package_id, <<".">>) THEN SplitLast(package_id, <<".">>) ELSE package_id

\* lines 114-142: the name a cache miss resolves to
ResolvedName(res, package_id) ==
    LET display_name == ParseShow(res, package_id)
    IN  IF display_name = <<>> THEN DerivedName(package_id) ELSE display_name

----------------------------------------------------------------------------
(* The cache file *)

\* Content of winget_cache.json.  kind: "absent" (no file), "corrupt" (empty
\* or unparsable), "list" (valid JSON that is an array), "dict" (a JSON
\* object; map holds its members).  A member is a proper entry written by
\* save_winget_info_to_cache, or after hand editing a falsy value ({} or
\* null) or a truthy value that is not an object (a string).
NoMap == [i \in {} |-> [kind |-> "entry", display_name |-> <<>>]]

FileAbsent  == [kind |-> "absent",  map |-> NoMap]
FileCorrupt == [kind |-> "corrupt", map |-> NoMap]
FileList    == [kind |-> "list",    map |-> NoMap]
FileDict(m) == [kind |-> "dict",    map |-> m]

Entry(display_name) == [kind |-> "entry",  display_name |-> display_name]
FalsyMember         == [kind |-> "falsy",  display_name |-> <<>>]
StringMember        == [kind |-> "string", display_name |-> <<>>]

NameOld == <<"O", "l", "d">>

\* cache files a run can start from
CacheFiles ==
    { FileAbsent, FileCorrupt, FileList,
      FileDict([i \in Ids |-> IF i = IdFBZ THEN Entry(NameOld) ELSE FalsyMember]),
      FileDict([i \in {IdS} |-> StringMember]) }

\* lines 64-76: load_all_cached_winget_info.  The result is a record
\* [isDict, map]: json.load hands back whatever the file holds, so an array
\* comes back as a list, not as a mapping.
load_all_cached_winget_info(file) ==
    IF file.kind = "absent" THEN [isDict |-> TRUE, map |-> NoMap]
    ELSE IF file.kind = "corrupt" THEN [isDict |-> TRUE, map |-> NoMap]
    ELSE IF file.kind = "list" THEN [isDict |-> FALSE, map |-> NoMap]
    ELSE [isDict |-> TRUE, map |-> file.map]

\* a lookup that never finds anything
load_cached_never_found(file, package_id) ==
    [raised |-> FALSE, found |-> FALSE, info |-> FalsyMember]

\* lines 79-82: load_cached_winget_info.  raised: all_cache.get does not
\* exist on a list (AttributeError); found: the key is present.
load_cached_winget_info(file, package_id) ==
    LET all_cache == load_all_cached_winget_info(file)
    IN  IF ~all_cache.isDict
        THEN [raised |-> TRUE, found |-> FALSE, info |-> FalsyMember]
        ELSE IF package_id \in DOMAIN all_cache.map
        THEN [raised |-> FALSE, found |-> TRUE, info |-> all_cache.map[package_id]]
        ELSE [raised |-> FALSE, found |-> FALSE, info |-> FalsyMember]

\* outcomes of the write at lines 97-98: done; open() failed and the file is
\* as before; open() truncated the file and the dump or the close failed
WriteOutcomes == {"ok", "open_failed", "dump_failed"}

\* a save that rewrites the file without the new entry
save_without_new_entry(file, package_id, display_name, w) ==
    LET all_cache == load_all_cached_winget_info(file)
    IN  IF ~all_cache.isDict THEN file
        ELSE IF w = "open_failed" THEN file
        ELSE IF w = "dump_failed" THEN FileCorrupt
        ELSE FileDict(all_cache.map)

\* lines 85-101: save_winget_info_to_cache, the file it leaves behind
save_winget_info_to_cache(file, package_id, display_name, w) ==
    LET all_cache == load_all_cached_winget_info(file)
        updated   == [i \in (DOMAIN all_cache.map) \cup {package_id} |->
                         IF i = package_id THEN Entry(display_name)
                         ELSE all_cache.map[i]]
    IN  IF ~all_cache.isDict THEN file     \* item assignment on a list: TypeError
        ELSE IF w = "open_failed" THEN file
        ELSE IF w = "dump_failed" THEN FileCorrupt
        ELSE FileDict(updated)

\* lines 85-101: whether that call rewrote the file in full
SaveWrote(file, w) ==
    load_all_cached_winget_info(file).isDict /\ w = "ok"

----------------------------------------------------------------------------
(* get_app_display_name *)

NoNames == [i \in {} |-> <<>>]

\* line 119 and line 123 read off the raw result: the lookup failed (non-zero
\* exit or no output), printed nothing that holds [package_id], or printed it
ShowKind(res, package_id) ==
    IF res.returncode # 0 \/ Len(res.stdout) = 0 THEN "failed"
    ELSE IF Occurrences(res.stdout, Bracketed(package_id)) = {} THEN "nomatch"
    ELSE "matched"

\* a resolver that never reads the cache
get_app_display_name_uncached(file, package_id, res, w) ==
    LET display_name == ResolvedName(res, package_id)
    IN  [raised |-> FALSE, shown |-> TRUE, stored |-> TRUE,
         name |-> display_name,
         file |-> save_winget_info_to_cache(file, package_id, display_name, w)]

\* a resolver whose store lets a failed write out
get_app_display_name_store_raises(file, package_id, res, w) ==
    LET cached == load_cached_winget_info(file, package_id)
    IN  IF cached.raised \/ (cached.found /\ cached.info.kind = "string")
        THEN [raised |-> TRUE, shown |-> FALSE, stored |-> FALSE,
              name |-> <<>>, file |-> file]
        ELSE IF cached.found /\ cached.info.kind = "entry"
        THEN [raised |-> FALSE, shown |-> FALSE, stored |-> FALSE,
              name |-> cached.info.display_name, file |-> file]
        ELSE LET display_name == ResolvedName(res, package_id)
             IN  [raised |-> w # "ok", shown |-> TRUE, stored |-> TRUE,
                  name |-> display_name,
                  file |-> save_winget_info_to_cache(file, package_id, display_name, w)]

\* a resolver that stores the name again on a hit
get_app_display_name_restamping(file, package_id, res, w) ==
    LET cached == load_cached_winget_info(file, package_id)
    IN  IF cached.raised \/ (cached.found /\ cached.info.kind = "string")
        THEN [raised |-> TRUE, shown |-> FALSE, stored |-> FALSE,
              name |-> <<>>, file |-> file]
        ELSE IF cached.found /\ cached.info.kind = "entry"
        THEN [raised |-> FALSE, shown |-> FALSE, stored |-> TRUE,
              name |-> cached.info.display_name,
              file |-> save_winget_info_to_cache(file, package_id,
                                                 cached.info.display_name, w)]
        ELSE LET display_name == ResolvedName(res, package_id)
             IN  [raised |-> FALSE, shown |-> TRUE, stored |-> TRUE,
                  name |-> display_name,
                  file |-> save_winget_info_to_cache(file, package_id, display_name, w)]

\* lines 104-148 with cache_dir given: res is what "winget show" returns if
\* it is run, w how the write of the cache file goes if it is attempted.
\* raised: an exception leaves the function; shown: "winget show" was run;
\* stored: save_winget_info_to_cache was called; file: the cache file after.
get_app_display_name(file, package_id, res, w) ==
    LET cached == load_cached_winget_info(file, package_id)
    IN  IF cached.raised \/ (cached.found /\ cached.info.kind = "string")
        THEN [raised |-> TRUE, shown |-> FALSE, stored |-> FALSE,
              name |-> <<>>, file |-> file]
        ELSE IF cached.found /\ cached.info.kind = "entry"
        THEN [raised |-> FALSE, shown |-> FALSE, stored |-> FALSE,
              name |-> cached.info.display_name, file |-> file]
        ELSE LET display_name == ResolvedName(res, package_id)
             IN  [raised |-> FALSE, shown |-> TRUE, stored |-> TRUE,
                  name |-> display_name,
                  file |-> save_winget_info_to_cache(file, package_id, display_name, w)]

----------------------------------------------------------------------------
(* Exports *)

\* one element of a Packages list: a JSON object with optional members, or
\* a value that is not an object
Pkg(package_id, version) ==
    [dict |-> TRUE, id |-> package_id, hasVersion |-> TRUE, version |-> version]
PkgNoVersion(package_id) ==
    [dict |-> TRUE, id |-> package_id, hasVersion |-> FALSE, version |-> ""]
NotAnObject ==
    [dict |-> FALSE, id |-> <<>>, hasVersion |-> FALSE, version |-> ""]

WingetEntries ==
    {Pkg(IdFBZ, "1.0"), PkgNoVersion(IdS), Pkg(<<>>, "2.0"), NotAnObject}

\* Packages lists of an export of source m
PackageLists(m) ==
    SeqsUpTo(WingetEntries, IF m = "msstore" THEN MaxStorePkgs ELSE MaxPkgs)

WithPackages(l) == [hasPackages |-> TRUE,  packages |-> l]
NoPackages      == [hasPackages |-> FALSE, packages |-> <<>>]

NoJson        == [kind |-> "none",      hasSources |-> FALSE, sources |-> <<>>]
MalformedJson == [kind |-> "malformed", hasSources |-> FALSE, sources |-> <<>>]
NoSourcesJson == [kind |-> "object",    hasSources |-> FALSE, sources |-> <<>>]
SourcesJson(srcs) == [kind |-> "object", hasSources |-> TRUE, sources |-> srcs]

\* what the file written by "winget export -s m" can hold
WingetDocs(m) ==
    {MalformedJson, NoSourcesJson}
    \cup {SourcesJson(<<WithPackages(l)>>) : l \in PackageLists(m)}
    \cup {SourcesJson(<<NoPackages, WithPackages(l), WithPackages(<<PkgNoVersion(IdS)>>)>>) :
              l \in {k \in PackageLists(m) : Len(k) = 1}}

\* lines 169-174: the Packages of the first source that has any
PackagesOf(doc) ==
    LET having == {i \in 1..Len(doc.sources) : doc.sources[i].hasPackages}
    IN  IF doc.hasSources /\ having # {}
        THEN doc.sources[Min(having)].packages
        ELSE <<>>

\* line 182, for every element: the identifiers to fetch
RECURSIVE ToFetch(_, _)
ToFetch(pkgs, all_cache) ==
    IF pkgs = <<>> THEN <<>>
    ELSE LET package_id == Head(pkgs).id
             rest       == ToFetch(Tail(pkgs), all_cache)
         IN  IF package_id # <<>>
                /\ (~all_cache.isDict \/ package_id \notin DOMAIN all_cache.map)
             THEN <<package_id>> \o rest
             ELSE rest

\* a default of no version at all
VersionOrEmpty(package) == IF package.hasVersion THEN package.version ELSE ""

\* line 192
VersionOf(package) == IF package.hasVersion THEN package.version ELSE "latest"

InSeq(x, s) == \E i \in 1..Len(s) : s[i] = x

----------------------------------------------------------------------------
(* get_winget_source_apps *)

\* no call of get_app_display_name yet in this pass
NoResolve == [id |-> <<>>, held |-> "nothing", shown |-> FALSE, stored |-> FALSE,
              raised |-> FALSE, name |-> <<>>]

\* what the cache file holds under package_id when get_app_display_name is
\* called: "entry" (an entry as save_winget_info_to_cache writes them),
\* "other" (a member that is no such entry), "nothing" (no member, or a
\* file that holds no mapping)
HeldUnder(file, package_id) ==
    IF file.kind = "dict" /\ package_id \in DOMAIN file.map
    THEN IF file.map[package_id].kind = "entry" THEN "entry" ELSE "other"
    ELSE "nothing"

\* one step of main: kind is "probe" (a call of is_command_available, who is
\* the tool), "export" (a call of an exporter, who is the manager) or
\* "output" (the exporter has returned and main has dealt with its list)
Event(kind, who) == [kind |-> kind, who |-> who]

Managers == {"msstore", "winget", "scoop", "choco"}
Tools    == {"winget", "scoop", "choco"}

\* every block testing winget_available
ToolOfWingetOnly(m) == "winget"

\* lines 362, 372, 378, 384: the probe result each block of main tests
ToolOf(m) == IF m \in {"msstore", "winget"} THEN "winget" ELSE m

\* an exporter without its handler: the exception ends the process
ExceptTargetUncaught == "crashed"

\* line 209 and its like: where an exception raised in an exporter's try
\* block ends up: the handler prints a warning and the function returns
ExceptTarget == "returned"

\* the export a pass reads: a second pass reads the export of the first
ExportableDocs ==
    IF pass = 2 /\ json_data.kind # "none" THEN {json_data} ELSE WingetDocs(mgr)

\* lines 153-189: allocate the scratch file, run "winget export", parse the
\* file, list the identifiers absent from the cache
WingetExportBegin ==
    /\ pc = "block"
    /\ mgr \in {"msstore", "winget"}
    /\ avail[ToolOf(mgr)]
    /\ apps' = <<>>
    /\ showLog' = <<>>
    /\ storeLog' = <<>>
    /\ resolveLog' = <<>>
    /\ lastResolve' = NoResolve
    /\ trace' = Append(trace, Event("export", mgr))
    /\ idx' = 1
    /\ fetch_index' = 0
    /\ \/ \* tempfile.mkstemp raises
          /\ scratch' = "none"
          /\ status' = "exception"
          /\ pc' = ExceptTarget
          /\ json_data' = NoJson
          /\ packages' = <<>>
          /\ packages_to_fetch' = <<>>
       \/ \* the export command fails
          /\ scratch' = "removed"
          /\ status' = "nonzero"
          /\ pc' = "returned"
          /\ json_data' = NoJson
          /\ packages' = <<>>
          /\ packages_to_fetch' = <<>>
       \/ \E doc \in ExportableDocs :
            /\ json_data' = doc
            /\ IF doc.kind = "malformed"
               THEN \* json.load raises
                    /\ scratch' = "exists"
                    /\ status' = "exception"
                    /\ pc' = ExceptTarget
                    /\ packages' = <<>>
                    /\ packages_to_fetch' = <<>>
               ELSE /\ packages' = PackagesOf(doc)
                    /\ scratch' = "exists"
                    /\ IF \E i \in 1..Len(PackagesOf(doc)) : ~PackagesOf(doc)[i].dict
                       THEN \* package.get raises in the first loop
                            /\ status' = "exception"
                            /\ pc' = ExceptTarget
                            /\ packages_to_fetch' = <<>>
                       ELSE /\ status' = "running"
                            /\ pc' = "resolve"
                            /\ packages_to_fetch' =
                                   ToFetch(PackagesOf(doc),
                                           load_all_cached_winget_info(cacheFile))
    /\ UNCHANGED <<mgr, avail, cacheFile, outFiles, found_files, lastStore,
                   firstWritten, csvLog, writeFailed, pass, prev>>

\* lines 190-203: one turn of the second loop
ResolveStep ==
    /\ pc = "resolve"
    /\ idx <= Len(packages)
    /\ LET package    == packages[idx]
           package_id == package.id
       IN  IF package_id = <<>>
           THEN /\ idx' = idx + 1
                /\ UNCHANGED <<pc, fetch_index, apps, status, cacheFile,
                               showLog, lastStore, firstWritten, writeFailed,
                               storeLog, resolveLog, lastResolve>>
           ELSE /\ fetch_index' = IF InSeq(package_id, packages_to_fetch)
                                  THEN fetch_index + 1 ELSE fetch_index
                /\ \E res \in ShowResults(package_id), w \in WriteOutcomes :
                   \E r \in {get_app_display_name(cacheFile, package_id, res, w)} :
                         /\ cacheFile' = r.file
                         /\ showLog' = IF r.shown THEN Append(showLog, package_id)
                                       ELSE showLog
                         /\ storeLog' = IF r.stored THEN Append(storeLog, package_id)
                                        ELSE storeLog
                         /\ resolveLog' = Append(resolveLog, package_id)
                         /\ lastResolve' =
                                [id |-> package_id,
                                 held |-> HeldUnder(cacheFile, package_id),
                                 shown |-> r.shown, stored |-> r.stored,
                                 raised |-> r.raised, name |-> r.name]
                         /\ lastStore' =
                                IF r.stored
                                THEN [id |-> package_id, name |-> r.name,
                                      wrote |-> SaveWrote(cacheFile, w),
                                      show |-> ShowKind(res, package_id)]
                                ELSE lastStore
                         /\ firstWritten' =
                                IF r.stored /\ SaveWrote(cacheFile, w)
                                   /\ package_id \notin DOMAIN firstWritten
                                THEN [i \in (DOMAIN firstWritten) \cup {package_id} |->
                                         IF i = package_id THEN r.name
                                         ELSE firstWritten[i]]
                                ELSE firstWritten
                         /\ writeFailed' =
                                (writeFailed \/ (r.stored /\ ~SaveWrote(cacheFile, w)))
                         /\ IF r.raised
                            THEN /\ status' = "exception"
                                 /\ pc' = ExceptTarget
                                 /\ UNCHANGED <<apps, idx>>
                            ELSE /\ apps' = Append(apps,
                                                   [PackageId |-> package_id,
                                                    Name |-> r.name,
                                                    Version |-> VersionOf(package)])
                                 /\ idx' = idx + 1
                                 /\ UNCHANGED <<pc, status>>
    /\ UNCHANGED <<mgr, avail, json_data, packages, packages_to_fetch, scratch,
                   outFiles, found_files, csvLog, pass, prev, trace>>

\* lines 205-213: the loop is over; remove the scratch file and return
WingetFinish ==
    /\ pc = "resolve"
    /\ idx > Len(packages)
    /\ scratch' = "removed"
    /\ status' = "ok"
    /\ pc' = "returned"
    /\ UNCHANGED <<mgr, avail, json_data, packages, packages_to_fetch,
                   fetch_index, idx, apps, cacheFile, outFiles, found_files,
                   showLog, lastStore, firstWritten, csvLog, writeFailed, pass, prev,
                   trace, storeLog, resolveLog, lastResolve>>

----------------------------------------------------------------------------
(* get_scoop_apps and get_chocolatey_apps *)

App(name, version, source) ==
    [dict |-> TRUE, name |-> name, hasVersion |-> TRUE, version |-> version,
     hasSource |-> TRUE, source |-> source]
AppNameOnly(name) ==
    [dict |-> TRUE, name |-> name, hasVersion |-> FALSE, version |-> "",
     hasSource |-> FALSE, source |-> ""]
NotAnApp ==
    [dict |-> FALSE, name |-> "", hasVersion |-> FALSE, version |-> "",
     hasSource |-> FALSE, source |-> ""]

ScoopEntries == {App("git", "2.0", "extras"), AppNameOnly("jq"), AppNameOnly(""), NotAnApp}

\* what "scoop export" can print: text that is not JSON, an object without
\* "apps", an object with an "apps" list
ScoopDocs ==
    { [kind |-> "malformed", hasApps |-> FALSE, apps |-> <<>>],
      [kind |-> "object",    hasApps |-> FALSE, apps |-> <<>>] }
    \cup { [kind |-> "object", hasApps |-> TRUE, apps |-> l] :
              l \in SeqsUpTo(ScoopEntries, MaxApps) }

\* lines 244-250: the loop over json_data["apps"]; raised when app.get is
\* called on an element that is not an object
RECURSIVE ScoopLoop(_, _)
ScoopLoop(entries, acc) ==
    IF entries = <<>> THEN [apps |-> acc, raised |-> FALSE]
    ELSE LET app == Head(entries)
         IN  IF ~app.dict THEN [apps |-> acc, raised |-> TRUE]
             ELSE ScoopLoop(Tail(entries),
                            IF app.name # ""
                            THEN Append(acc,
                                   [Name |-> app.name,
                                    Version |-> IF app.hasVersion THEN app.version ELSE "latest",
                                    Source |-> IF app.hasSource THEN app.source ELSE "main"])
                            ELSE acc)

\* lines 226-260
ScoopExport ==
    /\ pc = "block"
    /\ mgr = "scoop"
    /\ avail[ToolOf(mgr)]
    /\ \/ \* tempfile.mkstemp raises
          /\ scratch' = "none"
          /\ status' = "exception"
          /\ apps' = <<>>
          /\ pc' = ExceptTarget
       \/ \* the command fails or prints nothing
          /\ scratch' = "removed"
          /\ status' = "nonzero"
          /\ apps' = <<>>
          /\ pc' = "returned"
       \/ \E doc \in ScoopDocs :
            IF doc.kind = "malformed"
            THEN \* json.loads raises
                 /\ scratch' = "exists"
                 /\ status' = "exception"
                 /\ apps' = <<>>
                 /\ pc' = ExceptTarget
            ELSE LET r == ScoopLoop(doc.apps, <<>>)
                 IN  /\ apps' = r.apps
                     /\ IF r.raised
                        THEN /\ scratch' = "exists"
                             /\ status' = "exception"
                             /\ pc' = ExceptTarget
                        ELSE /\ scratch' = "removed"
                             /\ status' = "ok"
                             /\ pc' = "returned"
    /\ trace' = Append(trace, Event("export", mgr))
    /\ UNCHANGED <<mgr, avail, json_data, packages, packages_to_fetch,
                   fetch_index, idx, cacheFile, outFiles, found_files, showLog,
                   lastStore, firstWritten, csvLog, writeFailed, pass, prev,
                   storeLog, resolveLog, lastResolve>>

IdGit        == <<"g", "i", "t">>
Chocolatey   == <<"c", "h", "o", "c", "o", "l", "a", "t", "e", "y">>
IdChocoExt   == Chocolatey \o <<"-", "x">>

\* a <package> element with its attributes
Element(package_id, version) ==
    [id |-> package_id, hasVersion |-> TRUE, version |-> version]
ElementNoVersion(package_id) ==
    [id |-> package_id, hasVersion |-> FALSE, version |-> ""]

ChocoElements ==
    {Element(IdGit, "2.1"), Element(Chocolatey, "1.0"),
     ElementNoVersion(IdChocoExt), ElementNoVersion(<<>>)}

\* what the file written by "choco export" can hold
ChocoDocs ==
    { [kind |-> "malformed", elements |-> <<>>] }
    \cup { [kind |-> "xml", elements |-> l] : l \in SeqsUpTo(ChocoElements, MaxApps) }

\* lines 281-286
RECURSIVE ChocoLoop(_)
ChocoLoop(elements) ==
    IF elements = <<>> THEN <<>>
    ELSE LET package == Head(elements)
             rest    == ChocoLoop(Tail(elements))
         IN  IF package.id # <<>> /\ ~StartsWith(package.id, Chocolatey)
             THEN <<[PackageId |-> package.id, Title |-> package.id,
                     Version |-> IF package.hasVersion THEN package.version
                                 ELSE "latest"]>> \o rest
             ELSE rest

\* lines 263-296
ChocoExport ==
    /\ pc = "block"
    /\ mgr = "choco"
    /\ avail[ToolOf(mgr)]
    /\ \/ \* tempfile.mkstemp raises
          /\ scratch' = "none"
          /\ status' = "exception"
          /\ apps' = <<>>
          /\ pc' = ExceptTarget
       \/ \* the command fails
          /\ scratch' = "removed"
          /\ status' = "nonzero"
          /\ apps' = <<>>
          /\ pc' = "returned"
       \/ \E doc \in ChocoDocs :
            IF doc.kind = "malformed"
            THEN \* ET.parse raises
                 /\ scratch' = "exists"
                 /\ status' = "exception"
                 /\ apps' = <<>>
                 /\ pc' = ExceptTarget
            ELSE /\ apps' = ChocoLoop(doc.elements)
                 /\ scratch' = "removed"
                 /\ status' = "ok"
                 /\ pc' = "returned"
    /\ trace' = Append(trace, Event("export", mgr))
    /\ UNCHANGED <<mgr, avail, json_data, packages, packages_to_fetch,
                   fetch_index, idx, cacheFile, outFiles, found_files, showLog,
                   lastStore, firstWritten, csvLog, writeFailed, pass, prev,
                   storeLog, resolveLog, lastResolve>>

----------------------------------------------------------------------------
(* main *)

\* lines 36-49: which: shutil.which found the command; test: the PowerShell
\* test of scoop ran and exited with 0
is_command_available(command, which, test) ==
    IF command = "scoop" /\ which THEN test ELSE which

\* line 393
csv_files == <<"microsoft_store_apps.csv", "winget_apps.csv",
               "scoop_apps.csv", "chocolatey_apps.csv">>

\* lines 366, 375, 381, 387
FileOf(m) ==
    CASE m = "msstore" -> "microsoft_store_apps.csv"
      [] m = "winget"  -> "winget_apps.csv"
      [] m = "scoop"   -> "scoop_apps.csv"
      [] m = "choco"   -> "chocolatey_apps.csv"

\* lines 368, 375, 381, 387
FieldNames(m) ==
    CASE m = "msstore" -> <<"PackageId", "Name", "Version">>
      [] m = "winget"  -> <<"PackageId", "Name", "Version">>
      [] m = "scoop"   -> <<"Name", "Version", "Source">>
      [] m = "choco"   -> <<"PackageId", "Title", "Version">>

\* a csv file: "absent", "stale" (left by an earlier run), "written" (header
\* and rows written by this run), "truncated" (opened for writing by this
\* run, the write failed)
NoFile    == [kind |-> "absent",    header |-> <<>>]
Truncated == [kind |-> "truncated", header |-> <<>>]
Stale(m)  == [kind |-> "stale",     header |-> FieldNames(m)]

\* the output directory a run starts from: an earlier run left two files
OutDir ==
    [f \in {csv_files[i] : i \in 1..4} |->
        IF f = FileOf("scoop") THEN Stale("scoop")
        ELSE IF f = FileOf("winget") THEN Stale("winget") ELSE NoFile]

\* a write_csv that skips writeheader
write_csv_no_header(file, data, fieldnames, w) ==
    IF data = <<>> THEN file
    ELSE IF w = "open_failed" THEN file
    ELSE IF w = "dump_failed" THEN Truncated
    ELSE [kind |-> "written", header |-> <<>>]

\* lines 299-310: the file write_csv leaves behind
write_csv(file, data, fieldnames, w) ==
    IF data = <<>> THEN file
    ELSE IF w = "open_failed" THEN file
    ELSE IF w = "dump_failed" THEN Truncated
    ELSE [kind |-> "written", header |-> fieldnames]

NoStore == [id |-> <<>>, name |-> <<>>, wrote |-> FALSE, show |-> "none"]
NoPrev  == [apps |-> <<>>, status |-> "none", json_data |-> NoJson, showLog |-> <<>>,
            writeFailed |-> FALSE]

\* the scoop block placed before the winget block
NextBlockScoopFirst(m) ==
    CASE m = "msstore" -> [pc |-> "block",  mgr |-> "scoop"]
      [] m = "scoop"   -> [pc |-> "block",  mgr |-> "winget"]
      [] m = "winget"  -> [pc |-> "block",  mgr |-> "choco"]
      [] m = "choco"   -> [pc |-> "report", mgr |-> "choco"]

\* lines 361-387: the order of the four blocks
NextBlock(m) ==
    CASE m = "msstore" -> [pc |-> "block",  mgr |-> "winget"]
      [] m = "winget"  -> [pc |-> "block",  mgr |-> "scoop"]
      [] m = "scoop"   -> [pc |-> "block",  mgr |-> "choco"]
      [] m = "choco"   -> [pc |-> "report", mgr |-> "choco"]

\* lines 352-354: one call of is_command_available
Probe(tool, here, next) ==
    /\ pc = here
    /\ \E which \in BOOLEAN, test \in BOOLEAN :
         avail' = [avail EXCEPT ![tool] = is_command_available(tool, which, test)]
    /\ pc' = next
    /\ trace' = Append(trace, Event("probe", tool))
    /\ UNCHANGED <<mgr, json_data, packages, packages_to_fetch, fetch_index,
                   idx, apps, status, scratch, cacheFile, outFiles, found_files,
                   showLog, lastStore, firstWritten, csvLog, writeFailed, pass, prev,
                   storeLog, resolveLog, lastResolve>>

\* lines 362, 372, 378, 384: the manager's tool is not available
SkipBlock ==
    /\ pc = "block"
    /\ ~avail[ToolOf(mgr)]
    /\ pc' = NextBlock(mgr).pc
    /\ mgr' = NextBlock(mgr).mgr
    /\ UNCHANGED <<avail, json_data, packages, packages_to_fetch, fetch_index,
                   idx, apps, status, scratch, cacheFile, outFiles, found_files,
                   showLog, lastStore, firstWritten, csvLog, writeFailed, pass, prev,
                   trace, storeLog, resolveLog, lastResolve>>

\* lines 364-369, 374-375, 380-381, 386-387: the exporter has returned and
\* main writes its list.  The exporter's frame is gone and main does not
\* read the list again, so what describes the finished exporter is reset.
MainWrite ==
    /\ pc = "returned"
    /\ \E w \in WriteOutcomes :
         /\ outFiles' = [outFiles EXCEPT
                          ![FileOf(mgr)] = write_csv(@, apps, FieldNames(mgr), w)]
         /\ csvLog' = IF apps # <<>> /\ w = "ok" THEN csvLog \cup {mgr} ELSE csvLog
    /\ pc' = NextBlock(mgr).pc
    /\ mgr' = NextBlock(mgr).mgr
    /\ json_data' = NoJson
    /\ packages' = <<>>
    /\ packages_to_fetch' = <<>>
    /\ fetch_index' = 0
    /\ idx' = 1
    /\ apps' = <<>>
    /\ status' = "none"
    /\ scratch' = "none"
    /\ showLog' = <<>>
    /\ lastStore' = NoStore
    /\ writeFailed' = FALSE
    /\ storeLog' = <<>>
    /\ resolveLog' = <<>>
    /\ lastResolve' = NoResolve
    /\ trace' = Append(trace, Event("output", mgr))
    /\ UNCHANGED <<avail, cacheFile, found_files, firstWritten, pass, prev>>

\* lines 389-403
Report ==
    /\ pc = "report"
    /\ found_files' = SelectSeq(csv_files, LAMBDA f : outFiles[f].kind # "absent")
    /\ pc' = "done"
    /\ UNCHANGED <<mgr, avail, json_data, packages, packages_to_fetch,
                   fetch_index, idx, apps, status, scratch, cacheFile, outFiles,
                   showLog, lastStore, firstWritten, csvLog, writeFailed, pass, prev,
                   trace, storeLog, resolveLog, lastResolve>>

Init ==
    /\ pc = "probe_winget"
    /\ mgr = "msstore"
    /\ avail = [t \in Tools |-> FALSE]
    /\ json_data = NoJson
    /\ packages = <<>>
    /\ packages_to_fetch = <<>>
    /\ fetch_index = 0
    /\ idx = 1
    /\ apps = <<>>
    /\ status = "none"
    /\ scratch = "none"
    /\ cacheFile \in CacheFiles
    /\ outFiles = OutDir
    /\ found_files = <<>>
    /\ showLog = <<>>
    /\ lastStore = NoStore
    /\ firstWritten = NoNames
    /\ csvLog = {}
    /\ writeFailed = FALSE
    /\ pass = 1
    /\ prev = NoPrev
    /\ trace = <<>>
    /\ storeLog = <<>>
    /\ resolveLog = <<>>
    /\ lastResolve = NoResolve

Next ==
    \/ Probe("winget", "probe_winget", "probe_scoop")
    \/ Probe("scoop", "probe_scoop", "probe_choco")
    \/ Probe("choco", "probe_choco", "block")
    \/ SkipBlock
    \/ WingetExportBegin
    \/ ResolveStep
    \/ WingetFinish
    \/ ScoopExport
    \/ ChocoExport
    \/ MainWrite
    \/ Report

Spec == Init /\ [][Next]_vars

\* The winget pipeline run twice over one export, the second pass by a new
\* process, with nothing else touching the cache file in between.
SecondPass ==
    /\ pc = "returned"
    /\ pass = 1
    /\ pass' = 2
    /\ prev' = [apps |-> apps, status |-> status, json_data |-> json_data,
                showLog |-> showLog, writeFailed |-> writeFailed]
    /\ pc' = "block"
    /\ firstWritten' = NoNames
    /\ UNCHANGED <<mgr, avail, json_data, packages, packages_to_fetch,
                   fetch_index, idx, apps, status, scratch, cacheFile, outFiles,
                   found_files, showLog, lastStore, csvLog, writeFailed,
                   trace, storeLog, resolveLog, lastResolve>>

InitTwice ==
    /\ pc = "block"
    /\ mgr = "winget"
    /\ avail = [t \in Tools |-> t = "winget"]
    /\ json_data = NoJson
    /\ packages = <<>>
    /\ packages_to_fetch = <<>>
    /\ fetch_index = 0
    /\ idx = 1
    /\ apps = <<>>
    /\ status = "none"
    /\ scratch = "none"
    /\ cacheFile \in CacheFiles
    /\ outFiles = OutDir
    /\ found_files = <<>>
    /\ showLog = <<>>
    /\ lastStore = NoStore
    /\ firstWritten = NoNames
    /\ csvLog = {}
    /\ writeFailed = FALSE
    /\ pass = 1
    /\ prev = NoPrev
    /\ trace = <<>>
    /\ storeLog = <<>>
    /\ resolveLog = <<>>
    /\ lastResolve = NoResolve

NextTwice ==
    \/ WingetExportBegin
    \/ ResolveStep
    \/ WingetFinish
    \/ SecondPass

TwiceSpec == InitTwice /\ [][NextTwice]_vars

\* every external command returns and every step of main is taken
FairSpec == Spec /\ WF_vars(Next)

----------------------------------------------------------------------------
(* Properties *)

AvailableMgrs == {m \in Managers : avail[ToolOf(m)]}

\* the second pass has returned and both passes parsed the same export
SameExportTwice ==
    /\ pc = "returned"
    /\ pass = 2
    /\ json_data.kind = "object"
    /\ prev.json_data = json_data

\* no identifier that got a record in the first pass was given to
\* "winget show" in the second
NoShowForResolved ==
    \A j \in 1..Len(prev.apps) : ~InSeq(prev.apps[j].PackageId, showLog)

ScratchRemovedOnReturn ==
    pc = "returned" => scratch # "exists"

\* C3: an exporter whose export command failed or that caught an exception
\* returns an empty list.
FailureYieldsEmptyList ==
    (pc = "returned" /\ status \in {"nonzero", "exception"}) => apps = <<>>

\* identifiers of the records against the non-empty identifiers exported
RecordIds(recs) == [i \in 1..Len(recs) |-> recs[i].PackageId]
ExportedIds(pkgs) ==
    LET kept == SelectSeq(pkgs, LAMBDA p : p.id # <<>>)
    IN  [i \in 1..Len(kept) |-> kept[i].id]

\* C4: with several managers available in a run of main, a manager whose
\* export failed contributes no record, and a manager whose export went
\* through contributes the records of its own export, whatever happened to
\* the others.
ExportFailureIsolation ==
    (pc = "returned" /\ Cardinality(AvailableMgrs) >= 2) =>
        /\ status \in {"nonzero", "exception"} => apps = <<>>
        /\ (status = "ok" /\ mgr \in {"msstore", "winget"}) =>
               RecordIds(apps) = ExportedIds(packages)

\* header columns of each manager's file (spec, section 6)
HeaderColumns(m) ==
    CASE m = "msstore" -> <<"PackageId", "Name", "Version">>
      [] m = "winget"  -> <<"PackageId", "Name", "Version">>
      [] m = "scoop"   -> <<"Name", "Version", "Source">>
      [] m = "choco"   -> <<"PackageId", "Title", "Version">>

ExactlyTwoAvailable == Cardinality(AvailableMgrs) = 2

\* C5, as stated: with exactly two managers available, after the run the
\* files of those two exist with their header columns and no file of an
\* unavailable manager exists.
PartialOutput ==
    (pc = "done" /\ ExactlyTwoAvailable) =>
        \A m \in Managers :
            IF m \in AvailableMgrs
            THEN /\ outFiles[FileOf(m)].kind # "absent"
                 /\ outFiles[FileOf(m)].header = HeaderColumns(m)
            ELSE outFiles[FileOf(m)].kind = "absent"

\* C5, amended: with exactly two managers available, the files the run has
\* written are those of the available managers that returned at least one
\* record and whose write succeeded, each with its manager's header columns,
\* and the file of an unavailable manager is as the run found it.
PartialOutputWritten ==
    (pc = "done" /\ ExactlyTwoAvailable) =>
        \A m \in Managers :
            /\ (m \in csvLog) <=> (outFiles[FileOf(m)].kind = "written")
            /\ m \in csvLog =>
                  /\ m \in AvailableMgrs
                  /\ outFiles[FileOf(m)].header = HeaderColumns(m)
            /\ m \notin AvailableMgrs => outFiles[FileOf(m)] = OutDir[FileOf(m)]

PartialOutputWitness ==
    /\ pc = "done"
    /\ ExactlyTwoAvailable
    /\ csvLog = AvailableMgrs

\* C6: main reaches its final report whatever fails on the way.
RunCompletes == <>(pc = "done")

RunCompletesWitness ==
    /\ pc = "done"
    /\ cacheFile.kind = "corrupt"
    /\ \E f \in DOMAIN outFiles : outFiles[f].kind = "truncated"

\* C7: an entry this process wrote to the cache file is not later replaced
\* by an entry with another display name.
WriteOnceEntries ==
    \A i \in DOMAIN firstWritten :
        (/\ cacheFile.kind = "dict"
         /\ i \in DOMAIN cacheFile.map
         /\ cacheFile.map[i].kind = "entry")
        => cacheFile.map[i].display_name = firstWritten[i]

\* the cache file answers a lookup of the last stored identifier with the
\* stored name
LastStoreFound ==
    LET cached == load_cached_winget_info(cacheFile, lastStore.id)
    IN  /\ ~cached.raised
        /\ cached.found
        /\ cached.info.kind = "entry"
        /\ cached.info.display_name = lastStore.name

InvalidCacheLoadsEmpty ==
    cacheFile.kind # "dict" =>
        /\ load_all_cached_winget_info(cacheFile) = [isDict |-> TRUE, map |-> NoMap]
        /\ \A i \in Ids : ~load_cached_winget_info(cacheFile, i).raised

\* the part of an identifier after its last dot, the whole of it without one
AfterLastDot(package_id) ==
    CHOOSE t \in {SubSeq(package_id, k, Len(package_id)) : k \in 1..(Len(package_id) + 1)} :
        /\ \A i \in 1..Len(t) : t[i] # "."
        /\ \/ Len(t) = Len(package_id)
           \/ package_id[Len(package_id) - Len(t)] = "."

\* C10: a resolve that missed the cache and whose show lookup failed or
\* printed no line with [identifier] returns the part of the identifier after
\* its last dot, or the identifier when it has no dot.
FallbackName ==
    lastStore.show \in {"failed", "nomatch"} => lastStore.name = AfterLastDot(lastStore.id)

FallbackNameWitness ==
    /\ lastStore.show = "failed"
    /\ lastStore.id = IdFBZ
    /\ lastStore.name = <<"Z">>
    /\ apps # <<>>
    /\ apps[Len(apps)].Name = <<"Z">>

\* place of the managers in main: the Microsoft Store source, winget, scoop,
\* chocolatey
ManagerPos(m) ==
    CASE m = "msstore" -> 1
      [] m = "winget"  -> 2
      [] m = "scoop"   -> 3
      [] m = "choco"   -> 4

\* the first manager a tool serves
FirstManagerOf(tool) ==
    CASE tool = "winget" -> "msstore"
      [] tool = "scoop"  -> "scoop"
      [] tool = "choco"  -> "choco"

\* the manager a step of main belongs to
OwnerPos(e) ==
    IF e.kind = "probe" THEN ManagerPos(FirstManagerOf(e.who)) ELSE ManagerPos(e.who)

\* C11, as stated: the steps of main come manager by manager: the probe, the
\* export with its name resolution and the output write of a manager all
\* come before any step of the next manager, that manager's probe included.
SequentialManagers ==
    \A i \in 1..Len(trace), j \in 1..Len(trace) :
        i < j => OwnerPos(trace[i]) <= OwnerPos(trace[j])

\* place of a step when the three probes come first
StepRank(e) ==
    CASE e.kind = "probe"  -> ManagerPos(FirstManagerOf(e.who))
      [] e.kind = "export" -> 3 + 2 * ManagerPos(e.who)
      [] e.kind = "output" -> 4 + 2 * ManagerPos(e.who)

\* C11, amended: main first probes winget, scoop and chocolatey, in this
\* order, and only then runs the managers one after the other: the export
\* with its name resolution and the output write of a manager come before
\* any export or output step of the next manager.
SequentialAfterProbes ==
    \A i \in 1..Len(trace), j \in 1..Len(trace) :
        i < j => StepRank(trace[i]) < StepRank(trace[j])

SequentialWitness ==
    /\ pc = "done"
    /\ \A t \in Tools : avail[t]
    /\ Len(trace) = 11
    /\ trace[3] = Event("probe", "choco")
    /\ trace[4] = Event("export", "msstore")

\* the tool a manager needs (spec, section 2: two winget-backed sources, one
\* shim-based, one config-file-based)
RequiredTool(m) ==
    CASE m = "msstore" -> "winget"
      [] m = "winget"  -> "winget"
      [] m = "scoop"   -> "scoop"
      [] m = "choco"   -> "choco"

\* the tool of m has been probed and found unavailable
ProbedUnavailable(m) ==
    /\ InSeq(Event("probe", RequiredTool(m)), trace)
    /\ ~avail[RequiredTool(m)]

\* C12: for a manager probed unavailable no exporter is called, no show
\* lookup and no store is made while its block is the current one, its
\* output file is as the run found it, and the run goes on: at the end every
\* available manager has had its exporter called.
ToolAbsentSkip ==
    /\ \A m \in Managers :
          ProbedUnavailable(m) =>
             /\ ~InSeq(Event("export", m), trace)
             /\ ~InSeq(Event("output", m), trace)
             /\ outFiles[FileOf(m)] = OutDir[FileOf(m)]
             /\ mgr = m =>
                   /\ pc \in {"probe_scoop", "probe_choco", "block", "report", "done"}
                   /\ showLog = <<>>
                   /\ storeLog = <<>>
                   /\ scratch = "none"
    /\ pc = "done" =>
          \A m \in Managers :
             avail[RequiredTool(m)] =>
                 InSeq(Event("export", m), trace) /\ InSeq(Event("output", m), trace)

ToolAbsentWitness ==
    /\ pc = "done"
    /\ ~avail["winget"]
    /\ ~avail["scoop"]
    /\ avail["choco"]
    /\ trace = <<Event("probe", "winget"), Event("probe", "scoop"),
                 Event("probe", "choco"), Event("export", "choco"),
                 Event("output", "choco")>>
    /\ outFiles[FileOf("choco")].kind = "written"

\* C13: a call of get_app_display_name that found nothing under its
\* identifier in the cache has run the show lookup and then called
\* save_winget_info_to_cache with the identifier and the name it returns,
\* whether the name was shown or derived.
MissEndsInStore ==
    (lastResolve.id # <<>> /\ lastResolve.held = "nothing") =>
        /\ ~lastResolve.raised
        /\ lastResolve.shown
        /\ lastResolve.stored
        /\ storeLog # <<>>
        /\ storeLog[Len(storeLog)] = lastResolve.id
        /\ lastStore.id = lastResolve.id
        /\ lastStore.name = lastResolve.name

\* C14: a call of get_app_display_name whose identifier has an entry in the
\* cache file returns the display name of that entry, which becomes the name
\* of the record, and runs no "winget show".
HitMakesNoCall ==
    (lastResolve.id # <<>> /\ lastResolve.held = "entry") =>
        /\ ~lastResolve.shown
        /\ ~lastResolve.raised
        /\ HeldUnder(cacheFile, lastResolve.id) = "entry"
        /\ lastResolve.name = cacheFile.map[lastResolve.id].display_name
        /\ apps # <<>>
        /\ apps[Len(apps)].PackageId = lastResolve.id
        /\ apps[Len(apps)].Name = lastResolve.name

HitWitness ==
    /\ pc = "returned"
    /\ status = "ok"
    /\ lastResolve.held = "entry"
    /\ lastResolve.id = IdFBZ
    /\ lastResolve.name = NameOld
    /\ showLog = <<>>
    /\ Len(apps) = 2

\* C15: when the write of the cache file fails in save_winget_info_to_cache,
\* nothing is raised, get_app_display_name returns the name it resolved or
\* derived, the record list ends with a record of that name, and the
\* exporter goes on with the next identifier or returns normally.
PersistenceFailureSwallowed ==
    (lastResolve.stored /\ ~lastStore.wrote) =>
        /\ ~lastResolve.raised
        /\ lastStore.id = lastResolve.id
        /\ lastResolve.name = lastStore.name
        /\ lastStore.show \in {"failed", "nomatch"} =>
               lastResolve.name = AfterLastDot(lastResolve.id)
        /\ apps # <<>>
        /\ apps[Len(apps)].PackageId = lastResolve.id
        /\ apps[Len(apps)].Name = lastResolve.name
        /\ \/ pc = "resolve" /\ status = "running"
           \/ pc = "returned" /\ status = "ok"

PersistenceFailureWitness ==
    /\ pc = "returned"
    /\ status = "ok"
    /\ mgr = "winget"
    /\ lastResolve.stored
    /\ ~lastStore.wrote
    /\ cacheFile.kind = "corrupt"
    /\ Len(apps) = 2
    /\ apps[2].Name = NameApp

\* the files the final report lists
ReportedFiles == {found_files[i] : i \in 1..Len(found_files)}

\* C16: the files listed by the final report are the files this run has
\* written.
FaithfulReport ==
    pc = "done" => ReportedFiles = {FileOf(m) : m \in csvLog}

\* the step resolves the identifier i
ResolvingStep(i) ==
    /\ pc = "resolve"
    /\ idx <= Len(packages)
    /\ packages[idx].id = i

\* C17: a store leaves the entry of every other identifier in the cache file
\* as it was, also when the load or the write fails.
StoreKeepsOtherEntries ==
    [][\A i \in DOMAIN cacheFile.map :
          (HeldUnder(cacheFile, i) = "entry" /\ ~ResolvingStep(i)) =>
              /\ HeldUnder(cacheFile', i) = "entry"
              /\ cacheFile'.map[i].display_name = cacheFile.map[i].display_name]_vars

\* a winget exporter has returned without having caught an exception
SuccessfulExport ==
    /\ pc = "returned"
    /\ mgr \in {"msstore", "winget"}
    /\ status = "ok"

\* C18: after an export pass the total announced before the second loop is
\* the number of show lookups made in the pass, and so is the number of
\* progress lines printed.
ProgressTotals ==
    SuccessfulExport =>
        /\ Len(packages_to_fetch) = Len(showLog)
        /\ fetch_index = Len(showLog)

\* the entries of every Packages list of an export, in order
RECURSIVE AllListed(_)
AllListed(srcs) ==
    IF srcs = <<>> THEN <<>>
    ELSE (IF Head(srcs).hasPackages THEN Head(srcs).packages ELSE <<>>)
         \o AllListed(Tail(srcs))

\* the entries of the first Packages list of an export that have an
\* identifier
FirstListed(doc) ==
    LET having == {i \in 1..Len(doc.sources) : doc.sources[i].hasPackages}
        first  == CHOOSE i \in having : \A j \in having : i <= j
    IN  IF having = {} THEN <<>>
        ELSE SelectSeq(doc.sources[first].packages, LAMBDA e : e.id # <<>>)

\* identifier and version of the records, and of the entries they come from
IdAndVersion(recs) ==
    [i \in 1..Len(recs) |-> [PackageId |-> recs[i].PackageId, Version |-> recs[i].Version]]
ExpectedRecords(entries) ==
    [i \in 1..Len(entries) |->
        [PackageId |-> entries[i].id,
         Version   |-> IF entries[i].hasVersion THEN entries[i].version ELSE "latest"]]
EntryIds(entries) == [i \in 1..Len(entries) |-> entries[i].id]

\* C19, as stated: after a successful export the resolver has been called
\* once and one record has been emitted, in export order, for every entry of
\* every Packages list of the export, with the entry's identifier and its
\* version, or "latest" without one.
EveryEntryARecord ==
    SuccessfulExport =>
        /\ IdAndVersion(apps) = ExpectedRecords(AllListed(json_data.sources))
        /\ resolveLog = EntryIds(AllListed(json_data.sources))

\* C19, amended: the same for every entry that has a non-empty identifier in
\* the Packages list of the first source that has such a list.
EveryFirstListedARecord ==
    SuccessfulExport =>
        /\ IdAndVersion(apps) = ExpectedRecords(FirstListed(json_data))
        /\ resolveLog = EntryIds(FirstListed(json_data))

EveryFirstListedWitness ==
    /\ SuccessfulExport
    /\ Len(json_data.sources) = 3
    /\ Len(AllListed(json_data.sources)) = 2
    /\ Len(apps) = 1
    /\ apps[1].Version = "latest"
    /\ resolveLog = <<IdS>>

\* the step is a call of get_app_display_name that hits the cache
HitStep ==
    /\ pc = "resolve"
    /\ idx <= Len(packages)
    /\ HeldUnder(cacheFile, packages[idx].id) = "entry"

\* the step changes the cache file or calls save_winget_info_to_cache
CacheWriteStep ==
    \/ cacheFile' # cacheFile
    \/ Len(storeLog') > Len(storeLog)

\* C20: a call of get_app_display_name that hits the cache neither changes
\* the cache file nor calls save_winget_info_to_cache, and the cache file is
\* written only by a call that did not hit.
HitLeavesCacheUnchanged ==
    [][/\ HitStep => ~CacheWriteStep
       /\ CacheWriteStep =>
             /\ pc = "resolve"
             /\ idx <= Len(packages)
             /\ packages[idx].id # <<>>
             /\ HeldUnder(cacheFile, packages[idx].id) # "entry"]_vars

HitLeavesCacheWitness ==
    /\ pc = "resolve"
    /\ mgr = "winget"
    /\ lastResolve.held = "entry"
    /\ lastResolve.id = IdFBZ
    /\ ~lastResolve.stored
    /\ storeLog = <<>>
    /\ cacheFile \in CacheFiles
    /\ Len(resolveLog) = 1
    /\ Len(packages) = 2

====
